---- MODULE Spec2Model ----
(***************************************************************************)
(* A model of the four-stage urban-mobility batch pipeline:                *)
(*   data_ingest.py  ->  data_clean.py  ->  feature_engineering.py         *)
(*   ->  forecast_model.py                                                 *)
(* Each stage is modelled as the sequence of statements of its function;   *)
(* every stage has its own specification (SpecIngest, SpecClean, SpecAgg,  *)
(* SpecForecast, SpecMape, SpecMain) over its own group of variables.      *)
(***************************************************************************)
EXTENDS Integers, Sequences, FiniteSets, TLC

VARIABLES
    \* ---- data_ingest.py ----
    srcExists,      \* os.path.exists(csv_path)
    dirExists,      \* os.path.exists(os.path.dirname(db_path))
    chunks,         \* what pd.read_csv(csv_path, chunksize=...) yields
    table,          \* the destination table: [exists, rows]
    engine,         \* "none" | "created" (lazy) | "connected"
    pcI,            \* position inside data_ingest.py
    chunk_idx,      \* position of the chunk iterator
    chunk_num,      \* the local chunk_num of ingest_data
    logI,           \* what ingest logged
    run,            \* number of the current invocation of ingest_data
    dir0,           \* dirExists when the current invocation started
    table0,         \* table when the current invocation started
    src0,           \* srcExists when the current invocation started
    \* ---- data_clean.py ----
    rawTable,       \* the rows of the table clean_data reads
    df,             \* the local DataFrame df of clean_data
    pcC,            \* position inside clean_data
    cleaned_csv,    \* the file at output_path: [exists, rows]
    logC,           \* the data sizes clean_data logged
    \* ---- feature_engineering.py ----
    pickups,        \* the pickup_datetime column of the cleaned file
    dfA,            \* the local df of create_hourly_demand (its index)
    demand_by_hour, \* the local demand_by_hour
    pcA,            \* position inside create_hourly_demand
    hourly_csv,     \* the file at output_path: [exists, rows]
    \* ---- forecast_model.py, train_and_save_model ----
    series,         \* the rows of the hourly demand file
    dfF,            \* the local df
    pcF,            \* position inside train_and_save_model
    split_point, train_df, test_df,
    eval_model, forecast_eval, y_true, y_pred,
    metrics,        \* [mae, mse, mape, r2] once computed
    logF,           \* the metrics logged
    final_model,
    modelDirExists, \* os.path.exists(os.path.dirname(model_output_path))
    artifact,       \* the file at model_output_path: [exists, model]
    \* ---- forecast_model.py, calculate_mape on its own ----
    mape_true, mape_pred,   \* the arguments
    mape_out,               \* the value returned
    pcM,
    \* ---- the four scripts' entry points ----
    artifacts,      \* which files exist
    stage,          \* the script being run
    pcE,            \* position inside the script
    exitCode,       \* the exit status of the process, once it has ended
    logE,           \* what the script logged
    artifacts0,     \* artifacts when the script started
    invocations     \* number of scripts started

varsI == <<srcExists, dirExists, chunks, table, engine, pcI, chunk_idx,
           chunk_num, logI, run, dir0, table0, src0>>

varsC == <<rawTable, df, pcC, cleaned_csv, logC>>

varsA == <<pickups, dfA, demand_by_hour, pcA, hourly_csv>>

varsF == <<series, dfF, pcF, split_point, train_df, test_df, eval_model,
           forecast_eval, y_true, y_pred, metrics, logF, final_model,
           modelDirExists, artifact>>

varsM == <<mape_true, mape_pred, mape_out, pcM>>

varsE == <<artifacts, stage, pcE, exitCode, logE, artifacts0, invocations>>

vars == <<varsI, varsC, varsA, varsF, varsM, varsE>>

\* what a stage leaves alone: the variables of the other stages
OthersI == UNCHANGED <<varsC, varsA, varsF, varsM, varsE>>
OthersC == UNCHANGED <<varsI, varsA, varsF, varsM, varsE>>
OthersA == UNCHANGED <<varsI, varsC, varsF, varsM, varsE>>
OthersF == UNCHANGED <<varsI, varsC, varsA, varsM, varsE>>
OthersM == UNCHANGED <<varsI, varsC, varsA, varsF, varsE>>
OthersE == UNCHANGED <<varsI, varsC, varsA, varsF, varsM>>

(***************************************************************************)
(* Generic helpers                                                         *)
(***************************************************************************)
RECURSIVE SeqsUpTo(_, _)
\* all sequences over S of length 0..n
SeqsUpTo(S, n) ==
    IF n = 0 THEN {<<>>}
    ELSE LET shorter == SeqsUpTo(S, n - 1)
         IN  shorter \cup {Append(s, x) : s \in {t \in shorter : Len(t) = n - 1}, x \in S}

Abs(x) == IF x < 0 THEN -x ELSE x

(***************************************************************************)
(* data_ingest.py                                                          *)
(***************************************************************************)
MaxChunks == 3
MaxRuns == 2

\* a table is [exists, rows]; the absent table has no rows
NoTable == [exists |-> FALSE, rows |-> <<>>]
Table(rows) == [exists |-> TRUE, rows |-> rows]

expected_columns ==
    {"pickup_datetime", "dropoff_datetime", "pickup_longitude",
     "pickup_latitude", "dropoff_longitude", "dropoff_latitude",
     "passenger_count", "trip_duration"}

DatetimeColumns == {"pickup_datetime", "dropoff_datetime"}

\* The column sets a chunk of the source may have: exactly the expected
\* ones, the expected ones and another one, one expected column missing.
ColumnSets ==
    { expected_columns,
      expected_columns \cup {"vendor_id"},
      expected_columns \ {"passenger_count"} }

RowKeys == {1, 2}

\* A cell is <<tag, k>>: tag "raw" as read from the file, "ts" once parsed by
\* pd.to_datetime; k identifies the file row the cell comes from.
RawRow(cols, k) == [c \in cols |-> <<"raw", k>>]

ChunkSet == { [cols |-> cs, rows |-> <<RawRow(cs, k)>>] : cs \in ColumnSets, k \in RowKeys }

\* pd.to_datetime on one cell
ToDatetime(cell) == <<"ts", cell[2]>>

\* chunk[expected_columns]: KeyError unless every expected column is there
HasExpectedColumns(chunk) == expected_columns \subseteq chunk.cols

ProjectRow(row) == [c \in expected_columns |-> row[c]]

ParseRow(row) ==
    [c \in DOMAIN row |-> IF c \in DatetimeColumns THEN ToDatetime(row[c]) ELSE row[c]]

\* lines 34-37: the chunk as it is handed to to_sql
PreparedRows(chunk) ==
    [i \in 1..Len(chunk.rows) |-> ParseRow(ProjectRow(chunk.rows[i]))]

\* DataFrame.to_sql(..., if_exists='replace'): drop the table, create it, insert
ToSqlReplaceBug(t, rows) == Table(t.rows \o rows)
ToSqlReplace(t, rows) == Table(rows)

\* DataFrame.to_sql(..., if_exists='append'): create if absent, insert
ToSqlAppend(t, rows) == Table(t.rows \o rows)

\* lines 39-42
WriteChunk(t, num, rows) ==
    IF num = 0 THEN ToSqlReplace(t, rows) ELSE ToSqlAppend(t, rows)

\* a table a previous run may have left: rows already projected and parsed
PriorTables ==
    {NoTable, Table(<<>>)}
        \cup {Table(<<ParseRow(RawRow(expected_columns, k))>>) : k \in RowKeys}

IngestIdle ==
    /\ srcExists = FALSE /\ dirExists = FALSE /\ chunks = <<>>
    /\ table = NoTable /\ engine = "none" /\ pcI = "off"
    /\ chunk_idx = 0 /\ chunk_num = 0 /\ logI = <<>> /\ run = 0
    /\ dir0 = FALSE /\ table0 = NoTable /\ src0 = FALSE

IngestInputs ==
    /\ srcExists \in BOOLEAN
    /\ dirExists \in BOOLEAN
    \* the source, when it exists, holds at least one chunk
    /\ chunks \in IF srcExists THEN SeqsUpTo(ChunkSet, MaxChunks) \ {<<>>} ELSE {<<>>}
    /\ table \in PriorTables
    /\ (~dirExists => table = NoTable)
    /\ engine = "none"
    /\ pcI = "idle"
    /\ chunk_idx = 0
    /\ chunk_num = 0
    /\ logI = <<>>
    /\ run = 0
    /\ dir0 = dirExists
    /\ table0 = table
    /\ src0 = srcExists

\* entering ingest_data(csv_path, db_path, table_name)
EnterIngestData ==
    /\ pcI' = "makedirs"
    /\ run' = run + 1
    /\ dir0' = dirExists
    /\ table0' = table
    /\ src0' = srcExists
    /\ engine' = "none"
    /\ chunk_idx' = 0
    /\ chunk_num' = 0

\* data_ingest.py run as a script, lines 52-60
MainIngest ==
    /\ pcI = "idle"
    /\ IF srcExists
       THEN /\ EnterIngestData
            /\ UNCHANGED logI
       ELSE /\ pcI' = "exit"
            /\ logI' = Append(logI, <<"error", "dataset_not_found">>)
            /\ UNCHANGED <<run, dir0, table0, src0, engine, chunk_idx, chunk_num>>
    /\ UNCHANGED <<srcExists, dirExists, chunks, table>>
    /\ OthersI

\* ingest_data called as a function, line 9
CallIngestData ==
    /\ pcI = "idle"
    /\ EnterIngestData
    /\ UNCHANGED <<srcExists, dirExists, chunks, table, logI>>
    /\ OthersI

\* lines 14-16
MakeDirs ==
    /\ pcI = "makedirs"
    /\ pcI' = "engine"
    /\ IF ~dirExists
       THEN /\ dirExists' = TRUE
            /\ logI' = Append(logI, <<"info", "created_directory">>)
       ELSE UNCHANGED <<dirExists, logI>>
    /\ UNCHANGED <<srcExists, chunks, table, engine, chunk_idx, chunk_num,
                   run, dir0, table0, src0>>
    /\ OthersI

\* lines 18-19: create_engine is lazy, no connection is opened here
CreateEngine ==
    /\ pcI = "engine"
    /\ pcI' = "read_csv"
    /\ engine' = "created"
    /\ UNCHANGED <<srcExists, dirExists, chunks, table, chunk_idx, chunk_num,
                   logI, run, dir0, table0, src0>>
    /\ OthersI

\* line 31, pd.read_csv(csv_path, chunksize=chunksize): FileNotFoundError
\* when the file is absent, otherwise an iterator over the chunks
ReadCsv ==
    /\ pcI = "read_csv"
    /\ IF srcExists
       THEN /\ pcI' = "loop"
            /\ chunk_idx' = 1
       ELSE /\ pcI' = "raised"
            /\ UNCHANGED chunk_idx
    /\ UNCHANGED <<srcExists, dirExists, chunks, table, engine, chunk_num,
                   logI, run, dir0, table0, src0>>
    /\ OthersI

\* lines 31-48: one iteration of the loop
ProcessChunk ==
    /\ pcI = "loop"
    /\ chunk_idx <= Len(chunks)
    /\ LET chunk == chunks[chunk_idx]
       IN  IF HasExpectedColumns(chunk)
           THEN /\ table' = WriteChunk(table, chunk_num, PreparedRows(chunk))
                /\ engine' = "connected"
                /\ chunk_num' = chunk_num + 1
                /\ logI' = Append(logI, <<"info", "ingested_chunk">>)
           ELSE /\ logI' = Append(logI, <<"error", "column_error_skipping">>)
                /\ UNCHANGED <<table, engine, chunk_num>>
    /\ chunk_idx' = chunk_idx + 1
    /\ UNCHANGED <<srcExists, dirExists, chunks, pcI, run, dir0, table0, src0>>
    /\ OthersI

\* line 50: the iterator is exhausted
FinishIngest ==
    /\ pcI = "loop"
    /\ chunk_idx > Len(chunks)
    /\ pcI' = "done"
    /\ logI' = Append(logI, <<"info", "ingestion_complete">>)
    /\ UNCHANGED <<srcExists, dirExists, chunks, table, engine, chunk_idx,
                   chunk_num, run, dir0, table0, src0>>
    /\ OthersI

\* ingest_data is run again on the same source and table
Rerun ==
    /\ pcI = "done"
    /\ run < MaxRuns
    /\ EnterIngestData
    /\ UNCHANGED <<srcExists, dirExists, chunks, table, logI>>
    /\ OthersI

NextIngest ==
    \/ MainIngest
    \/ CallIngestData
    \/ MakeDirs
    \/ CreateEngine
    \/ ReadCsv
    \/ ProcessChunk
    \/ FinishIngest
    \/ Rerun

(***************************************************************************)
(* data_clean.py                                                           *)
(***************************************************************************)
MaxRows == 2

Columns == expected_columns
LatColumns == {"pickup_latitude", "dropoff_latitude"}
LonColumns == {"pickup_longitude", "dropoff_longitude"}

\* Coordinates are in units of 0.00001 degree, so that 40.5 is 4050000 and
\* 40.49999 is 4049999.  Every coordinate and every bound is a decimal of at
\* most five places; parsing decimals to doubles is monotonic and maps equal
\* decimals to equal doubles, so comparing the scaled integers is comparing
\* the doubles.
NYC_BOUNDS ==
    [min_lon |-> -7430000, max_lon |-> -7370000,
     min_lat |-> 4050000,  max_lat |-> 4100000]

MinDuration == 60
MaxDuration == 5400

\* A row is [nulls, vals]: the columns that are NULL/NaN, and the values of
\* the others (the value of a NULL column is never read).
GoodRow ==
    [nulls |-> {},
     vals  |-> [c \in Columns |->
                  CASE c = "pickup_datetime"  -> 0
                    [] c = "dropoff_datetime" -> 600
                    [] c \in LatColumns       -> 4075000
                    [] c \in LonColumns       -> -7400000
                    [] c = "passenger_count"  -> 1
                    [] c = "trip_duration"    -> 600]]

\* the other values a column takes in the inputs
Alternatives(c) ==
    CASE c \in LatColumns      -> {4049999, 4050000, 4100000, 4100001}
      [] c \in LonColumns      -> {-7430001, -7430000, -7370000, -7369999}
      [] c = "passenger_count" -> {-1, 0, 6}
      [] c = "trip_duration"   -> {0, 59, 60, 61, 90, 100, 5399, 5400, 5401}
      [] OTHER                 -> {}

Variations ==
    {[col |-> c, null |-> TRUE, v |-> 0] : c \in Columns}
        \cup UNION {{[col |-> c, null |-> FALSE, v |-> x] : x \in Alternatives(c)} : c \in Columns}

Vary(r, a) ==
    IF a.null THEN [r EXCEPT !.nulls = @ \cup {a.col}]
    ELSE [r EXCEPT !.vals[a.col] = a.v]

With(c, x) == Vary(GoodRow, [col |-> c, null |-> FALSE, v |-> x])

\* every row that differs from GoodRow in at most two columns
RowsNearGood == {Vary(Vary(GoodRow, a), b) : a, b \in Variations}

SampleRows ==
    { GoodRow,
      With("pickup_latitude", 4050000),
      With("pickup_latitude", 4049999),
      With("trip_duration", 60),
      With("trip_duration", 61),
      With("trip_duration", 5399),
      With("passenger_count", 0),
      Vary(GoodRow, [col |-> "dropoff_longitude", null |-> TRUE, v |-> 0]) }

RawTables == {<<r>> : r \in RowsNearGood} \cup SeqsUpTo(SampleRows, MaxRows)

NoFile == [exists |-> FALSE, rows |-> <<>>]
File(rows) == [exists |-> TRUE, rows |-> rows]

\* a comparison with NaN is False in pandas
Gt(r, c, x) == c \notin r.nulls /\ r.vals[c] > x
Lt(r, c, x) == c \notin r.nulls /\ r.vals[c] < x

\* Series.between(left, right), inclusive="both" by default
BetweenExclusive(r, c, left, right) ==
    c \notin r.nulls /\ left < r.vals[c] /\ r.vals[c] < right
Between(r, c, left, right) ==
    c \notin r.nulls /\ left <= r.vals[c] /\ r.vals[c] <= right

\* line 23
NotNa(r) == r.nulls = {}
\* line 24
PassengerMask(r) == Gt(r, "passenger_count", 0)
\* lines 33-38
GeoMask(r) ==
    /\ Between(r, "pickup_latitude", NYC_BOUNDS.min_lat, NYC_BOUNDS.max_lat)
    /\ Between(r, "pickup_longitude", NYC_BOUNDS.min_lon, NYC_BOUNDS.max_lon)
    /\ Between(r, "dropoff_latitude", NYC_BOUNDS.min_lat, NYC_BOUNDS.max_lat)
    /\ Between(r, "dropoff_longitude", NYC_BOUNDS.min_lon, NYC_BOUNDS.max_lon)
\* line 43
DurationMask(r) ==
    Gt(r, "trip_duration", MinDuration) /\ Lt(r, "trip_duration", MaxDuration)

\* num/den rounded to the nearest integer, ties to even (numpy's round)
RoundHalfEven(num, den) ==
    LET q == num \div den
        m == num % den
    IN  IF 2 * m < den THEN q
        ELSE IF 2 * m > den THEN q + 1
        ELSE IF q % 2 = 0 THEN q ELSE q + 1

\* line 46, round(trip_duration / 60.0, 2), in hundredths of a minute
TripDurationMinutesTruncated(d) == (d * 100) \div 60
TripDurationMinutes(d) == RoundHalfEven(d * 100, 60)

\* line 46 on one row: the new column is NaN where trip_duration is
WithMinutes(r) ==
    [nulls |-> IF "trip_duration" \in r.nulls
               THEN r.nulls \cup {"trip_duration_minutes"} ELSE r.nulls,
     vals  |-> [c \in Columns \cup {"trip_duration_minutes"} |->
                  IF c = "trip_duration_minutes"
                  THEN TripDurationMinutes(r.vals["trip_duration"])
                  ELSE r.vals[c]]]

CleanIdle ==
    /\ rawTable = <<>> /\ df = <<>> /\ pcC = "off"
    /\ cleaned_csv = NoFile /\ logC = <<>>

CleanInputs ==
    /\ rawTable \in RawTables
    /\ df = <<>>
    /\ pcC = "read_sql"
    /\ cleaned_csv \in {NoFile, File(<<>>)}
    /\ logC = <<>>

\* lines 13-20
ReadSql ==
    /\ pcC = "read_sql"
    /\ df' = rawTable
    /\ logC' = Append(logC, Len(rawTable))
    /\ pcC' = "dropna"
    /\ UNCHANGED <<rawTable, cleaned_csv>>
    /\ OthersC

\* line 23
DropNa ==
    /\ pcC = "dropna"
    /\ df' = SelectSeq(df, NotNa)
    /\ pcC' = "passengers"
    /\ UNCHANGED <<rawTable, cleaned_csv, logC>>
    /\ OthersC

\* line 24
FilterPassengers ==
    /\ pcC = "passengers"
    /\ df' = SelectSeq(df, PassengerMask)
    /\ pcC' = "geo"
    /\ UNCHANGED <<rawTable, cleaned_csv, logC>>
    /\ OthersC

\* lines 32-39
FilterGeo ==
    /\ pcC = "geo"
    /\ df' = SelectSeq(df, GeoMask)
    /\ logC' = Append(logC, Len(df'))
    /\ pcC' = "duration"
    /\ UNCHANGED <<rawTable, cleaned_csv>>
    /\ OthersC

\* lines 42-43
FilterDuration ==
    /\ pcC = "duration"
    /\ df' = SelectSeq(df, DurationMask)
    /\ pcC' = "minutes"
    /\ UNCHANGED <<rawTable, cleaned_csv, logC>>
    /\ OthersC

\* lines 46-48
AddMinutes ==
    /\ pcC = "minutes"
    /\ df' = [i \in 1..Len(df) |-> WithMinutes(df[i])]
    /\ logC' = Append(logC, Len(df))
    /\ pcC' = "to_csv"
    /\ UNCHANGED <<rawTable, cleaned_csv>>
    /\ OthersC

\* lines 50-52
ToCsv ==
    /\ pcC = "to_csv"
    /\ cleaned_csv' = File(df)
    /\ pcC' = "done"
    /\ UNCHANGED <<rawTable, df, logC>>
    /\ OthersC

NextClean ==
    \/ ReadSql
    \/ DropNa
    \/ FilterPassengers
    \/ FilterGeo
    \/ FilterDuration
    \/ AddMinutes
    \/ ToCsv


(***************************************************************************)
(* feature_engineering.py                                                  *)
(***************************************************************************)
\* Timestamps are whole numbers of ticks; an hour is TicksPerHour ticks and
\* tick 0 is on an hour boundary.
TicksPerHour == 2
MaxTick == 9
MaxTrips == 3

RECURSIVE SeqMin(_)
SeqMin(s) ==
    IF Len(s) = 1 THEN s[1]
    ELSE LET m == SeqMin(Tail(s)) IN IF s[1] < m THEN s[1] ELSE m

RECURSIVE SeqMax(_)
SeqMax(s) ==
    IF Len(s) = 1 THEN s[1]
    ELSE LET m == SeqMax(Tail(s)) IN IF s[1] > m THEN s[1] ELSE m

\* the label of the 'h' bin a timestamp falls in (bins are closed on the left
\* and labelled by their left edge)
HourCeil(t) == t + ((TicksPerHour - (t % TicksPerHour)) % TicksPerHour)
HourFloor(t) == t - (t % TicksPerHour)

\* df.resample('h').size(): one bin per hour from the bin of the smallest
\* index value to the bin of the largest, each with the number of rows in it
ResampleSize(times) ==
    IF times = <<>> THEN <<>>
    ELSE LET first == HourFloor(SeqMin(times))
             last  == HourFloor(SeqMax(times))
             n     == ((last - first) \div TicksPerHour) + 1
         IN  [i \in 1..n |->
                LET label == first + (i - 1) * TicksPerHour
                IN  [ds |-> label,
                     y  |-> Cardinality({j \in DOMAIN times : HourFloor(times[j]) = label})]]

\* Series.asfreq('h', fill_value=0): reindex on the hourly range from the
\* first label to the last, a label that is absent gets fill_value
AsFreq(s, fill_value) ==
    IF s = <<>> THEN <<>>
    ELSE LET first == s[1].ds
             last  == s[Len(s)].ds
             n     == ((last - first) \div TicksPerHour) + 1
         IN  [i \in 1..n |->
                LET label == first + (i - 1) * TicksPerHour
                    at    == {j \in DOMAIN s : s[j].ds = label}
                IN  IF at = {} THEN [ds |-> label, y |-> fill_value]
                    ELSE s[CHOOSE j \in at : TRUE]]

AggIdle ==
    /\ pickups = <<>> /\ dfA = <<>> /\ demand_by_hour = <<>>
    /\ pcA = "off" /\ hourly_csv = NoFile

\* the cleaned file holds at least one trip; its rows are in no particular
\* order
AggInputs ==
    /\ pickups \in (SeqsUpTo(0..MaxTick, MaxTrips) \ {<<>>})
    /\ dfA = <<>>
    /\ demand_by_hour = <<>>
    /\ pcA = "read_csv"
    /\ hourly_csv \in {NoFile, File(<<>>)}

\* lines 13-15
ReadCleaned ==
    /\ pcA = "read_csv"
    /\ dfA' = pickups
    /\ pcA' = "resample"
    /\ UNCHANGED <<pickups, demand_by_hour, hourly_csv>>
    /\ OthersA

\* lines 17-19
Aggregate ==
    /\ pcA = "resample"
    /\ demand_by_hour' = AsFreq(ResampleSize(dfA), 0)
    /\ pcA' = "to_csv"
    /\ UNCHANGED <<pickups, dfA, hourly_csv>>
    /\ OthersA

\* lines 21-23
ToCsvHourly ==
    /\ pcA = "to_csv"
    /\ hourly_csv' = File(demand_by_hour)
    /\ pcA' = "done"
    /\ UNCHANGED <<pickups, dfA, demand_by_hour>>
    /\ OthersA

NextAgg ==
    \/ ReadCleaned
    \/ Aggregate
    \/ ToCsvHourly

(***************************************************************************)
(* forecast_model.py: calculate_mape                                       *)
(***************************************************************************)
MaxVal == 2
MaxLen == 2

\* A float is modelled by the exact rational [n, d] in lowest terms with
\* d > 0; d = 0 stands for a value that is not finite (inf or nan, what numpy
\* gives for a division by zero).
RECURSIVE GCD(_, _)
GCD(a, b) == IF b = 0 THEN a ELSE GCD(b, a % b)

Sign(x) == IF x < 0 THEN -1 ELSE IF x > 0 THEN 1 ELSE 0

Norm(n, d) ==
    IF d = 0 THEN [n |-> Sign(n), d |-> 0]
    ELSE LET g == GCD(Abs(n), Abs(d))
         IN  [n |-> (Sign(d) * n) \div g, d |-> Abs(d) \div g]

Zero == [n |-> 0, d |-> 1]
NotFinite == [n |-> 0, d |-> 0]

\* a / b on two numbers
RDiv(a, b) == Norm(a, b)
RAbs(x) == [n |-> Abs(x.n), d |-> x.d]
RAdd(x, y) ==
    IF x.d = 0 \/ y.d = 0 THEN NotFinite
    ELSE Norm(x.n * y.d + y.n * x.d, x.d * y.d)
RTimes(x, k) == IF x.d = 0 THEN x ELSE Norm(x.n * k, x.d)
ROver(x, k) == IF x.d = 0 THEN x ELSE Norm(x.n, x.d * k)

RECURSIVE RSum(_, _)
\* the sum of f[i] over i in S
RSum(f, S) ==
    IF S = {} THEN Zero
    ELSE LET i == CHOOSE j \in S : TRUE
         IN  RAdd(f[i], RSum(f, S \ {i}))

\* np.mean: nan on an empty array
RMean(f, S) == IF S = {} THEN NotFinite ELSE ROver(RSum(f, S), Cardinality(S))

\* lines 13-19, with the mask left out: the mean over every position
calculate_mape_unmasked(yt, yp) ==
    RTimes(RMean([i \in DOMAIN yt |-> RAbs(RDiv(yt[i] - yp[i], yt[i]))],
                 DOMAIN yt), 100)

\* lines 13-19
calculate_mape(yt, yp) ==
    LET non_zero_mask == {i \in DOMAIN yt : yt[i] # 0}
    IN  IF Cardinality(non_zero_mask) = 0
        THEN Zero
        ELSE RTimes(RMean([i \in non_zero_mask |->
                              RAbs(RDiv(yt[i] - yp[i], yt[i]))],
                          non_zero_mask), 100)

MapeIdle ==
    /\ mape_true = <<>> /\ mape_pred = <<>> /\ mape_out = Zero /\ pcM = "off"

MapeInputs ==
    /\ mape_true \in SeqsUpTo(-MaxVal..MaxVal, MaxLen)
    /\ mape_pred \in SeqsUpTo(0..MaxVal, MaxLen)
    /\ Len(mape_true) = Len(mape_pred)
    /\ mape_out = Zero
    /\ pcM = "call"

\* a call of calculate_mape(y_true, y_pred)
CallMape ==
    /\ pcM = "call"
    /\ mape_out' = calculate_mape(mape_true, mape_pred)
    /\ pcM' = "returned"
    /\ UNCHANGED <<mape_true, mape_pred>>
    /\ OthersM

NextMape == CallMape

(***************************************************************************)
(* forecast_model.py: train_and_save_model                                 *)
(***************************************************************************)
MaxN == 11

\* the counts and the fitted levels of the inputs
Counts == {0, 2}
Levels == {0, 3}

\* a fitted Prophet model: the rows it was fit on, and its parameters (here
\* one level, which is what it predicts)
NoModel == [fit_on |-> <<>>, level |-> 0]
NoArtifact == [exists |-> FALSE, model |-> NoModel]
Artifact(m) == [exists |-> TRUE, model |-> m]

\* the hourly demand file as feature_engineering.py writes it: one row per
\* hour, ascending, no gap
HourlySeries(ys) == [i \in DOMAIN ys |-> [ds |-> (i - 1) * TicksPerHour, y |-> ys[i]]]

\* line 31, int(len(df) * 0.9).  0.9 as a double is a little above 9/10, so
\* the double product is never below 9n/10 and never reaches the next
\* integer: int() of it is the integer part of 9n/10.
SplitPointCeil(n) == (9 * n + 9) \div 10
SplitPoint(n) == (9 * n) \div 10

\* df.iloc[:k] and df.iloc[k:]
ILocBefore(s, k) == SubSeq(s, 1, k)
ILocFrom(s, k) == SubSeq(s, k + 1, Len(s))

\* s[-k:]; -0 is 0, so s[-0:] is all of s
Last(s, k) == IF k = 0 THEN s ELSE SubSeq(s, Len(s) - k + 1, Len(s))

\* Prophet.make_future_dataframe(periods, freq='h'): the timestamps of the
\* history the model was fit on, then `periods` further hours
MakeFutureDataframeDaily(model, periods) ==
    LET history == [i \in DOMAIN model.fit_on |-> model.fit_on[i].ds]
        last == history[Len(history)]
    IN  history \o [i \in 1..periods |-> last + i * 24 * TicksPerHour]
MakeFutureDataframe(model, periods) ==
    LET history == [i \in DOMAIN model.fit_on |-> model.fit_on[i].ds]
        last == history[Len(history)]
    IN  history \o [i \in 1..periods |-> last + i * TicksPerHour]

\* Prophet.predict(future)
Predict(model, future) ==
    [i \in DOMAIN future |-> [ds |-> future[i], yhat |-> model.level]]

Column(s, c) == [i \in DOMAIN s |-> s[i][c]]

\* sklearn.metrics.mean_absolute_error
MeanAbsoluteError(yt, yp) ==
    RMean([i \in DOMAIN yt |-> RDiv(Abs(yt[i] - yp[i]), 1)], DOMAIN yt)

\* sklearn.metrics.mean_squared_error
MeanSquaredError(yt, yp) ==
    RMean([i \in DOMAIN yt |-> RDiv((yt[i] - yp[i]) * (yt[i] - yp[i]), 1)], DOMAIN yt)

RECURSIVE IntSum(_, _)
IntSum(f, S) ==
    IF S = {} THEN 0
    ELSE LET i == CHOOSE j \in S : TRUE IN f[i] + IntSum(f, S \ {i})

\* sklearn.metrics.r2_score: nan for fewer than two samples; with a constant
\* y_true, 1.0 for a perfect prediction and 0.0 otherwise
R2Score(yt, yp) ==
    LET k   == Len(yt)
        res == IntSum([i \in DOMAIN yt |-> (yt[i] - yp[i]) * (yt[i] - yp[i])], DOMAIN yt)
        sa  == IntSum(yt, DOMAIN yt)
        sa2 == IntSum([i \in DOMAIN yt |-> yt[i] * yt[i]], DOMAIN yt)
        tot == k * sa2 - sa * sa        \* k times the total sum of squares
    IN  IF k < 2 THEN NotFinite
        ELSE IF tot # 0 THEN Norm(tot - k * res, tot)
        ELSE IF res = 0 THEN Norm(1, 1) ELSE Zero

NoMetrics == [mae |-> Zero, mse |-> Zero, mape |-> Zero, r2 |-> Zero]

\* line 70: the object handed to joblib.dump
ModelToDumpEval == eval_model
ModelToDump == final_model

ForecastIdle ==
    /\ series = <<>> /\ dfF = <<>> /\ pcF = "off" /\ split_point = 0
    /\ train_df = <<>> /\ test_df = <<>> /\ eval_model = NoModel
    /\ forecast_eval = <<>> /\ y_true = <<>> /\ y_pred = <<>>
    /\ metrics = NoMetrics /\ logF = <<>> /\ final_model = NoModel
    /\ modelDirExists = FALSE /\ artifact = NoArtifact

ForecastInputs ==
    /\ series \in {HourlySeries(ys) : ys \in SeqsUpTo(Counts, MaxN)}
    /\ dfF = <<>>
    /\ pcF = "read_csv"
    /\ split_point = 0
    /\ train_df = <<>> /\ test_df = <<>>
    /\ eval_model = NoModel
    /\ forecast_eval = <<>> /\ y_true = <<>> /\ y_pred = <<>>
    /\ metrics = NoMetrics
    /\ logF = <<>>
    /\ final_model = NoModel
    /\ modelDirExists \in BOOLEAN
    \* a model file left by an earlier run, or none
    /\ artifact = IF modelDirExists THEN Artifact(NoModel) ELSE NoArtifact

\* lines 26-27
ReadHourly ==
    /\ pcF = "read_csv"
    /\ dfF' = series
    /\ pcF' = "split"
    /\ UNCHANGED <<series, split_point, train_df, test_df, eval_model,
                   forecast_eval, y_true, y_pred, metrics, logF, final_model,
                   modelDirExists, artifact>>
    /\ OthersF

\* lines 30-33
Split ==
    /\ pcF = "split"
    /\ split_point' = SplitPoint(Len(dfF))
    /\ train_df' = ILocBefore(dfF, split_point')
    /\ test_df' = ILocFrom(dfF, split_point')
    /\ pcF' = "fit_eval"
    /\ UNCHANGED <<series, dfF, eval_model, forecast_eval, y_true, y_pred,
                   metrics, logF, final_model, modelDirExists, artifact>>
    /\ OthersF

\* lines 35-36.  Prophet.fit raises ValueError on fewer than two rows; the
\* parameters it fits are its own business.
FitEval ==
    /\ pcF = "fit_eval"
    /\ IF Len(train_df) < 2
       THEN /\ pcF' = "raised"
            /\ UNCHANGED eval_model
       ELSE /\ \E l \in Levels : eval_model' = [fit_on |-> train_df, level |-> l]
            /\ pcF' = "predict"
    /\ UNCHANGED <<series, dfF, split_point, train_df, test_df, forecast_eval,
                   y_true, y_pred, metrics, logF, final_model, modelDirExists,
                   artifact>>
    /\ OthersF

\* lines 38-42
PredictEval ==
    /\ pcF = "predict"
    /\ forecast_eval' = Predict(eval_model, MakeFutureDataframe(eval_model, Len(test_df)))
    /\ y_true' = Column(test_df, "y")
    /\ y_pred' = Last(Column(forecast_eval', "yhat"), Len(test_df))
    /\ pcF' = "metrics"
    /\ UNCHANGED <<series, dfF, split_point, train_df, test_df, eval_model,
                   metrics, logF, final_model, modelDirExists, artifact>>
    /\ OthersF

\* lines 44-52
ComputeMetrics ==
    /\ pcF = "metrics"
    /\ metrics' = [mae  |-> MeanAbsoluteError(y_true, y_pred),
                   mse  |-> MeanSquaredError(y_true, y_pred),
                   mape |-> calculate_mape(y_true, y_pred),
                   r2   |-> R2Score(y_true, y_pred)]
    /\ pcF' = "log"
    /\ UNCHANGED <<series, dfF, split_point, train_df, test_df, eval_model,
                   forecast_eval, y_true, y_pred, logF, final_model,
                   modelDirExists, artifact>>
    /\ OthersF

\* lines 54-59; the RMSE logged is the square root of mse
LogMetrics ==
    /\ pcF = "log"
    /\ logF' = logF \o << <<"MAE", metrics.mae>>, <<"RMSE^2", metrics.mse>>,
                          <<"MAPE", metrics.mape>>, <<"R2", metrics.r2>> >>
    /\ pcF' = "fit_final"
    /\ UNCHANGED <<series, dfF, split_point, train_df, test_df, eval_model,
                   forecast_eval, y_true, y_pred, metrics, final_model,
                   modelDirExists, artifact>>
    /\ OthersF

\* lines 61-64
FitFinal ==
    /\ pcF = "fit_final"
    /\ \E l \in Levels : final_model' = [fit_on |-> dfF, level |-> l]
    /\ pcF' = "makedirs"
    /\ UNCHANGED <<series, dfF, split_point, train_df, test_df, eval_model,
                   forecast_eval, y_true, y_pred, metrics, logF,
                   modelDirExists, artifact>>
    /\ OthersF

\* lines 66-67
MakeModelDir ==
    /\ pcF = "makedirs"
    /\ modelDirExists' = TRUE
    /\ pcF' = "dump"
    /\ UNCHANGED <<series, dfF, split_point, train_df, test_df, eval_model,
                   forecast_eval, y_true, y_pred, metrics, logF, final_model,
                   artifact>>
    /\ OthersF

\* lines 69-72
DumpModel ==
    /\ pcF = "dump"
    /\ artifact' = Artifact(ModelToDump)
    /\ pcF' = "done"
    /\ UNCHANGED <<series, dfF, split_point, train_df, test_df, eval_model,
                   forecast_eval, y_true, y_pred, metrics, logF, final_model,
                   modelDirExists>>
    /\ OthersF

NextForecast ==
    \/ ReadHourly
    \/ Split
    \/ FitEval
    \/ PredictEval
    \/ ComputeMetrics
    \/ LogMetrics
    \/ FitFinal
    \/ MakeModelDir
    \/ DumpModel

(***************************************************************************)
(* The entry points (if __name__ == '__main__') of the four scripts        *)
(***************************************************************************)
MaxInvocations == 3

Scripts == {"data_ingest.py", "data_clean.py", "feature_engineering.py", "forecast_model.py"}

Files == {"data/uber_data.csv", "data/uber.db", "data/cleaned.csv",
          "data/demand_by_hour.csv", "models/prophet_model.pkl"}

\* the path each script tests with os.path.exists
Prerequisite(s) ==
    CASE s = "data_ingest.py"         -> "data/uber_data.csv"
      [] s = "data_clean.py"          -> "data/uber.db"
      [] s = "feature_engineering.py" -> "data/cleaned.csv"
      [] s = "forecast_model.py"      -> "data/demand_by_hour.csv"

\* the path each script's function writes
Output(s) ==
    CASE s = "data_ingest.py"         -> "data/uber.db"
      [] s = "data_clean.py"          -> "data/cleaned.csv"
      [] s = "feature_engineering.py" -> "data/demand_by_hour.csv"
      [] s = "forecast_model.py"      -> "models/prophet_model.pkl"

\* the logging.error of each script's else branch: the path it names and the
\* script it tells the user to run first
MissingMessage(s) ==
    [level   |-> "error",
     missing |-> Prerequisite(s),
     run     |-> CASE s = "data_ingest.py"         -> "none"
                   [] s = "data_clean.py"          -> "data_ingest.py"
                   [] s = "feature_engineering.py" -> "data_clean.py"
                   [] s = "forecast_model.py"      -> "feature_engineering.py"]

\* the exit status of a Python process whose script ran to its last line
ExitStatusAtEnd == 0
\* the exit status of a Python process ended by an uncaught exception
ExitStatusUncaught == 1
NotExited == -1

MainIdle ==
    /\ artifacts = [f \in Files |-> FALSE] /\ stage = "none" /\ pcE = "off"
    /\ exitCode = NotExited /\ logE = <<>>
    /\ artifacts0 = [f \in Files |-> FALSE] /\ invocations = 0

MainInputs ==
    /\ artifacts \in [Files -> BOOLEAN]
    /\ stage = "none"
    /\ pcE = "idle"
    /\ exitCode = NotExited
    /\ logE = <<>>
    /\ artifacts0 = artifacts
    /\ invocations = 0

\* python src/<script>
StartScript ==
    /\ pcE \in {"idle", "exited"}
    /\ invocations < MaxInvocations
    /\ \E s \in Scripts : stage' = s
    /\ pcE' = "main"
    /\ exitCode' = NotExited
    /\ logE' = <<>>
    /\ artifacts0' = artifacts
    /\ invocations' = invocations + 1
    /\ UNCHANGED artifacts
    /\ OthersE

\* the if os.path.exists(...) ... else logging.error(...) of the script
CheckPrerequisite ==
    /\ pcE = "main"
    /\ IF artifacts[Prerequisite(stage)]
       THEN /\ pcE' = "call"
            /\ UNCHANGED logE
       ELSE /\ pcE' = "end"
            /\ logE' = Append(logE, MissingMessage(stage))
    /\ UNCHANGED <<artifacts, stage, exitCode, artifacts0, invocations>>
    /\ OthersE

\* the script's function returns, having written its output
StageReturns ==
    /\ pcE = "call"
    /\ artifacts' = [artifacts EXCEPT ![Output(stage)] = TRUE]
    /\ pcE' = "end"
    /\ UNCHANGED <<stage, exitCode, logE, artifacts0, invocations>>
    /\ OthersE

\* the script's function raises; nothing catches it
StageRaises ==
    /\ pcE = "call"
    /\ \E written \in BOOLEAN :
          artifacts' = [artifacts EXCEPT ![Output(stage)] = @ \/ written]
    /\ exitCode' = ExitStatusUncaught
    /\ pcE' = "exited"
    /\ UNCHANGED <<stage, logE, artifacts0, invocations>>
    /\ OthersE

\* the last line of the script is passed
EndOfScript ==
    /\ pcE = "end"
    /\ exitCode' = ExitStatusAtEnd
    /\ pcE' = "exited"
    /\ UNCHANGED <<artifacts, stage, logE, artifacts0, invocations>>
    /\ OthersE

NextMain ==
    \/ StartScript
    \/ CheckPrerequisite
    \/ StageReturns
    \/ StageRaises
    \/ EndOfScript

(***************************************************************************)
(* Specifications                                                          *)
(***************************************************************************)
InitIngest == IngestInputs /\ CleanIdle /\ AggIdle /\ ForecastIdle /\ MapeIdle /\ MainIdle
InitClean == IngestIdle /\ CleanInputs /\ AggIdle /\ ForecastIdle /\ MapeIdle /\ MainIdle
InitAgg == IngestIdle /\ CleanIdle /\ AggInputs /\ ForecastIdle /\ MapeIdle /\ MainIdle
InitForecast == IngestIdle /\ CleanIdle /\ AggIdle /\ ForecastInputs /\ MapeIdle /\ MainIdle
InitMape == IngestIdle /\ CleanIdle /\ AggIdle /\ ForecastIdle /\ MapeInputs /\ MainIdle
InitMain == IngestIdle /\ CleanIdle /\ AggIdle /\ ForecastIdle /\ MapeIdle /\ MainInputs

SpecIngest == InitIngest /\ [][NextIngest]_vars
SpecClean == InitClean /\ [][NextClean]_vars
SpecAgg == InitAgg /\ [][NextAgg]_vars
SpecForecast == InitForecast /\ [][NextForecast]_vars
SpecMape == InitMape /\ [][NextMape]_vars
SpecMain == InitMain /\ [][NextMain]_vars

(***************************************************************************)
(* Properties: data_ingest.py                                              *)
(***************************************************************************)
RECURSIVE ValidChunkRows(_)
\* the rows of the chunks that have every expected column, projected to
\* those columns with the two timestamps parsed, in chunk order
ValidChunkRows(cs) ==
    IF cs = <<>> THEN <<>>
    ELSE (IF expected_columns \subseteq Head(cs).cols
          THEN PreparedRows(Head(cs)) ELSE <<>>) \o ValidChunkRows(Tail(cs))

\* C1: whatever the chunks and whatever the table held before, when
\* ingest_data returns the table holds exactly the rows of this run's valid
\* chunks, in chunk order, and nothing else (a chunk lacking an expected
\* column is skipped, the later ones are still ingested).
C1_TableHoldsValidChunksOnly ==
    pcI = "done" => table.rows = ValidChunkRows(chunks)

\* C2: running ingest_data again on the same source and table leaves the
\* table as the previous run left it: same rows, same row count, not double.
C2_RerunIdempotent ==
    (pcI = "done" /\ run >= 2) =>
        /\ table = table0
        /\ Len(table.rows) = Len(table0.rows)

\* a second run has ended and it wrote two chunks
C2_Witness ==
    pcI = "done" /\ run = 2 /\ chunk_num >= 2 /\ Len(table.rows) >= 2

\* C8: ingest_data invoked with a source file that does not exist fails
\* before any access to the destination: no directory is created, no
\* connection is opened, no table is written or replaced.
C8_MissingSourceNoStoreAccess ==
    (run >= 1 /\ ~src0) =>
        /\ pcI \in {"makedirs", "engine", "read_csv", "raised"}
        /\ dirExists = dir0
        /\ engine # "connected"
        /\ table = table0

(***************************************************************************)
(* Properties: data_clean.py                                               *)
(***************************************************************************)
\* the eight raw columns of a cleaned row
RawPart(r) ==
    [nulls |-> r.nulls \cap Columns, vals |-> [c \in Columns |-> r.vals[c]]]

\* no null field, passenger_count > 0, the four coordinates inside the box
\* with its edges, trip_duration strictly between 60 and 5400
IsValidTrip(r) ==
    /\ r.nulls = {}
    /\ r.vals["passenger_count"] > 0
    /\ \A c \in LonColumns : -7430000 <= r.vals[c] /\ r.vals[c] <= -7370000
    /\ \A c \in LatColumns : 4050000 <= r.vals[c] /\ r.vals[c] <= 4100000
    /\ 60 < r.vals["trip_duration"]
    /\ r.vals["trip_duration"] < 5400

\* C3: the cleaned output is exactly the raw rows that are valid trips, each
\* of them kept (in order, as often as it occurs) and no other row kept.
C3_CleanedIsExactlyTheValidRows ==
    pcC = "done" =>
        /\ cleaned_csv.exists
        /\ [i \in DOMAIN cleaned_csv.rows |-> RawPart(cleaned_csv.rows[i])]
              = SelectSeq(rawTable, IsValidTrip)

\* a row with latitude exactly 40.5 was kept and a row with latitude
\* 40.49999 was dropped
C3_Witness ==
    /\ pcC = "done"
    /\ \E i \in DOMAIN rawTable : rawTable[i].vals["pickup_latitude"] = 4049999
    /\ \E i \in DOMAIN cleaned_csv.rows :
          cleaned_csv.rows[i].vals["pickup_latitude"] = 4050000
    /\ \A i \in DOMAIN cleaned_csv.rows :
          cleaned_csv.rows[i].vals["pickup_latitude"] # 4049999

\* C10: in every cleaned row trip_duration_minutes (here in hundredths) is
\* trip_duration / 60 rounded to two decimals, trip_duration being the raw
\* value: it is within half a hundredth of trip_duration / 60, 61 seconds
\* give 1.02 and 5399 seconds give 89.98.
C10_MinutesAreRoundedDuration ==
    pcC = "done" =>
        \A i \in DOMAIN cleaned_csv.rows :
            LET r == cleaned_csv.rows[i]
                d == r.vals["trip_duration"]
                m == r.vals["trip_duration_minutes"]
            IN  /\ "trip_duration_minutes" \notin r.nulls
                /\ d = SelectSeq(rawTable, IsValidTrip)[i].vals["trip_duration"]
                /\ Abs(60 * m - 100 * d) <= 30
                /\ (d = 61 => m = 102)
                /\ (d = 5399 => m = 8998)
                /\ (d = 90 => m = 150)

\* the cleaned file holds a trip of 61 seconds and one of 5399 seconds
C10_Witness ==
    /\ pcC = "done"
    /\ \E i \in DOMAIN cleaned_csv.rows :
          /\ cleaned_csv.rows[i].vals["trip_duration"] = 61
          /\ cleaned_csv.rows[i].vals["trip_duration_minutes"] = 102
    /\ \E i \in DOMAIN cleaned_csv.rows :
          /\ cleaned_csv.rows[i].vals["trip_duration"] = 5399
          /\ cleaned_csv.rows[i].vals["trip_duration_minutes"] = 8998

(***************************************************************************)
(* Properties: feature_engineering.py                                      *)
(***************************************************************************)
\* C4: the hourly file has one row for every hour from the hour containing
\* the earliest pickup to the hour containing the latest, ascending, with no
\* gap and no duplicate, and each row's y is the number of pickups in that
\* hour (0 when there is none).
C4_GapFreeHourlySeries ==
    pcA = "done" =>
        LET out == hourly_csv.rows
            n   == Len(out)
        IN  /\ n >= 1
            /\ out[1].ds % TicksPerHour = 0
            /\ out[1].ds <= SeqMin(pickups)
            /\ SeqMin(pickups) < out[1].ds + TicksPerHour
            /\ out[n].ds <= SeqMax(pickups)
            /\ SeqMax(pickups) < out[n].ds + TicksPerHour
            /\ \A i \in 1..(n - 1) : out[i + 1].ds = out[i].ds + TicksPerHour
            /\ \A i \in 1..n :
                  out[i].y = Cardinality({j \in DOMAIN pickups :
                                /\ out[i].ds <= pickups[j]
                                /\ pickups[j] < out[i].ds + TicksPerHour})

\* two hours with trips and an hour without any between them
C4_Witness ==
    /\ pcA = "done"
    /\ Len(hourly_csv.rows) >= 3
    /\ \E i \in DOMAIN hourly_csv.rows : hourly_csv.rows[i].y = 0
    /\ \E i \in DOMAIN hourly_csv.rows : hourly_csv.rows[i].y >= 2

(***************************************************************************)
(* Properties: forecast_model.py                                           *)
(***************************************************************************)
Range(s) == {s[i] : i \in DOMAIN s}

\* C5: the series of n rows is split at floor(0.9 n): the training set is
\* its first floor(0.9 n) rows, the held-out set the others; they are
\* disjoint, together they are the series in its order, every training
\* timestamp is before every held-out one, and the evaluation model is fit
\* on the training set only.
C5_ChronologicalSplit ==
    pcF \notin {"off", "read_csv", "split"} =>
        LET n == Len(dfF)
        IN  /\ 10 * split_point <= 9 * n
            /\ 9 * n < 10 * (split_point + 1)
            /\ Len(train_df) = split_point
            /\ \A i \in 1..split_point : train_df[i] = dfF[i]
            /\ Len(test_df) = n - split_point
            /\ \A i \in 1..(n - split_point) : test_df[i] = dfF[split_point + i]
            /\ train_df \o test_df = dfF
            /\ Range(train_df) \cap Range(test_df) = {}
            /\ \A i \in DOMAIN train_df : \A j \in DOMAIN test_df :
                  train_df[i].ds < test_df[j].ds
            /\ (eval_model # NoModel =>
                  /\ eval_model.fit_on = train_df
                  /\ Range(eval_model.fit_on) \cap Range(test_df) = {})

\* the evaluation model was fit for a series of eleven rows, two held out
C5_Witness ==
    /\ pcF = "predict"
    /\ Len(dfF) = 11
    /\ Len(train_df) = 9
    /\ Len(test_df) = 2

\* the claim of C6 as it reads: 0.0 when every actual is 0, and otherwise 100
\* times the mean, over the positions with a non-zero actual, of
\* |actual - predicted| / actual
ClaimedMape(yt, yp) ==
    LET nz == {i \in DOMAIN yt : yt[i] # 0}
    IN  IF nz = {} THEN Zero
        ELSE RTimes(RMean([i \in nz |-> RDiv(Abs(yt[i] - yp[i]), yt[i])], nz), 100)

\* C6 as stated: calculate_mape returns ClaimedMape for any two sequences of
\* the same length.
C6_MapeAsStated ==
    pcM = "returned" => mape_out = ClaimedMape(mape_true, mape_pred)

\* C6, amended: calculate_mape returns exactly 0.0 when every actual is 0,
\* whatever the predictions, and otherwise 100 times the mean, over the
\* positions with a non-zero actual, of |actual - predicted| / |actual|; the
\* value is finite (nothing was divided by a zero actual).
C6_MapeAmended ==
    pcM = "returned" =>
        LET nz == {i \in DOMAIN mape_true : mape_true[i] # 0}
        IN  /\ mape_out.d # 0
            /\ (nz = {} => mape_out = Zero)
            /\ (nz # {} =>
                  mape_out =
                    RTimes(RMean([i \in nz |->
                                    RDiv(Abs(mape_true[i] - mape_pred[i]),
                                         Abs(mape_true[i]))], nz), 100))

\* a call with a zero actual next to a non-zero one, and a call with only
\* zero actuals and a non-zero prediction
C6_Witness ==
    /\ pcM = "returned"
    /\ \/ /\ \E i \in DOMAIN mape_true : mape_true[i] = 0
          /\ \E i \in DOMAIN mape_true : mape_true[i] < 0
          /\ mape_out.n > 0
       \/ /\ Len(mape_true) = 2
          /\ \A i \in DOMAIN mape_true : mape_true[i] = 0
          /\ \A i \in DOMAIN mape_pred : mape_pred[i] # 0
          /\ mape_out = Zero

C9_Safety ==
    \* the four metrics are logged before the final fit
    /\ pcF \in {"fit_final", "makedirs", "dump", "done"} =>
          /\ Len(logF) = 4
          /\ {logF[i][1] : i \in DOMAIN logF} = {"MAE", "RMSE^2", "MAPE", "R2"}
    \* the final model is fit on the whole series
    /\ pcF \in {"makedirs", "dump", "done"} =>
          /\ final_model.fit_on = series
          /\ final_model.fit_on # eval_model.fit_on
    \* nothing fit by this run is in the file before the dump, and what the
    \* dump writes is the final model
    /\ pcF # "done" => artifact.model = NoModel
    /\ pcF = "done" =>
          /\ artifact = Artifact(final_model)
          /\ artifact.model.fit_on = series
          /\ artifact.model.fit_on # train_df

\* C9: once the evaluation is made and its four metrics are computed, they
\* are logged, then, whatever their values, the final model is fit on the whole
\* series and written to the artifact path: each of these steps can be taken
\* in every state that reaches it, and the evaluation model is never what is
\* written.
C9_FinalModelIsPersisted ==
    /\ C9_Safety
    /\ pcF = "log" => ENABLED LogMetrics
    /\ pcF = "fit_final" => ENABLED FitFinal
    /\ pcF = "makedirs" => ENABLED MakeModelDir
    /\ pcF = "dump" => ENABLED DumpModel

\* a run that ended with a negative R2 and a MAPE of 100 % or more
C9_Witness ==
    /\ pcF = "done"
    /\ metrics.r2.d # 0 /\ metrics.r2.n < 0
    /\ metrics.mape.n >= 100 * metrics.mape.d
    /\ artifact = Artifact(final_model)

ProducerOf(f) ==
    IF \E s \in Scripts : Output(s) = f
    THEN CHOOSE s \in Scripts : Output(s) = f
    ELSE "none"

\* C7: a script started while its prerequisite is absent logs an error
\* naming the prerequisite and the script that produces it, writes nothing,
\* and ends as a failure (a non-zero exit status).
C7_MissingPrerequisiteFails ==
    (pcE = "exited" /\ ~artifacts0[Prerequisite(stage)]) =>
        /\ artifacts = artifacts0
        /\ \E i \in DOMAIN logE :
              /\ logE[i].level = "error"
              /\ logE[i].missing = Prerequisite(stage)
              /\ logE[i].run = ProducerOf(Prerequisite(stage))
        /\ exitCode # 0

====
